---- MODULE Spec2Model ----
(***************************************************************************)
(* Model of the two scripts of the repository:                             *)
(*   python_demo_823d3b.py      recursive fractal tree (turtle graphics)   *)
(*   python_tutorial_262ddc.py  evolving grid pattern (Pillow images)      *)
(*                                                                         *)
(* Numbers.  Branch lengths are fixed point numbers with UNIT steps per    *)
(* turtle unit.  Headings are whole degrees modulo 360.  A turtle position *)
(* is kept exactly, as the point `at' the cursor was last placed on by     *)
(* goto(x, y) plus the forward moves made since, summed per heading.       *)
(***************************************************************************)
EXTENDS Integers, Sequences, FiniteSets, TLC

(* ----------------------------- bounds ---------------------------------- *)
MaxDepth == 4

(* ------------------- python_demo: configuration ------------------------ *)
BRANCH_ANGLE == 25
BRANCH_SCALE_NUM == 7
BRANCH_SCALE_DEN == 10
INITIAL_LENGTH == 100
UNIT == 10^5

Depths == 0..MaxDepth
Lengths == {0, 37 * UNIT, INITIAL_LENGTH * UNIT}

VARIABLES
    program,        \* which script / entry point runs
    main_pc,        \* create_fractal_art: line about to execute
    tpos,           \* turtle: position
    theading,       \* turtle: heading, degrees
    tpen,           \* turtle: "down" or "up"
    tshown,         \* turtle: visible
    stack,          \* call stack of draw_fractal_tree, innermost last
    root_call,      \* arguments and cursor pose of the root call
    forward_calls,  \* number of t.forward calls issued
    last_op,        \* the turtle operation issued by the last step
    gpv_call,       \* python_tutorial: last call of get_pattern_value
    mvc_prev,       \* python_tutorial: call of map_value_to_color before the last
    mvc_call,       \* python_tutorial: last call of map_value_to_color
    tut_pc,         \* python_tutorial __main__: "L117", "loop", "raised", "done"
    num_frames,     \* python_tutorial __main__: num_frames
    frame_num,      \* python_tutorial __main__: loop variable
    image,          \* python_tutorial __main__: `image', NoImage before line 125
    saved,          \* names passed to image.save, in order
    error           \* exception that ended __main__, "none" otherwise

treeVars == <<main_pc, tpos, theading, tpen, tshown, stack, root_call,
              forward_calls, last_op>>

tutVars == <<gpv_call, mvc_prev, mvc_call, tut_pc, num_frames, frame_num, image,
             saved, error>>

vars == <<program, treeVars, tutVars>>

(* ------------------------- turtle operations --------------------------- *)
Origin == [at |-> <<0, 0>>, moved |-> <<>>]

Point(x, y) == [at |-> <<x, y>>, moved |-> <<>>]

\* turtle.forward: the position moves by `distance' along `heading'
turtle_forward(pos, heading, distance) ==
    LET old == IF heading \in DOMAIN pos.moved THEN pos.moved[heading] ELSE 0
        new == old + distance
        dom == {h \in (DOMAIN pos.moved) \cup {heading} : h # heading \/ new # 0}
    IN  [pos EXCEPT !.moved = [h \in dom |-> IF h = heading THEN new
                                                           ELSE pos.moved[h]]]

\* turtle.left / turtle.right: headings are counter-clockwise degrees
turtle_left(heading, angle) == (heading + angle) % 360

turtle_right(heading, angle) == (heading - angle) % 360

\* length * BRANCH_SCALE
ScaleLength(length) ==
    (length \div BRANCH_SCALE_DEN) * BRANCH_SCALE_NUM
    + ((length % BRANCH_SCALE_DEN) * BRANCH_SCALE_NUM) \div BRANCH_SCALE_DEN

(* ---------------------- draw_fractal_tree ------------------------------ *)
Frame(length, depth) ==
    [length |-> length, depth |-> depth, pc |-> "L50",
     current_pos |-> Origin, current_heading |-> 0]

Top == stack[Len(stack)]

InTree == program = "demo" /\ main_pc = "in_call" /\ Len(stack) > 0

At(label) == InTree /\ Top.pc = label

Goto(label) == stack' = [stack EXCEPT ![Len(stack)].pc = label]

\* control returns to the caller: the parent resumes after its call line
ReturnToCaller ==
    IF Len(stack) = 1
    THEN /\ stack' = <<>>
         /\ main_pc' = "L116"
    ELSE /\ stack' = [SubSeq(stack, 1, Len(stack) - 1) EXCEPT
                        ![Len(stack) - 1].pc =
                            IF stack[Len(stack) - 1].pc = "L67" THEN "L72" ELSE "L86"]
         /\ main_pc' = main_pc

\* line 50-51: base case
BaseCase ==
    /\ At("L50")
    /\ Top.depth = 0
    /\ ReturnToCaller
    /\ last_op' = "return"
    /\ UNCHANGED <<tutVars, program, tpos, theading, tpen, tshown, root_call, forward_calls>>

\* line 50: depth # 0, fall through to the body
EnterBody ==
    /\ At("L50")
    /\ Top.depth # 0
    /\ Goto("L54")
    /\ last_op' = "test"
    /\ UNCHANGED <<tutVars, program, main_pc, tpos, theading, tpen, tshown, root_call,
                   forward_calls>>

\* line 54: t.forward(length)
DrawBranch ==
    /\ At("L54")
    /\ tpos' = turtle_forward(tpos, theading, Top.length)
    /\ forward_calls' = forward_calls + 1
    /\ last_op' = "forward"
    /\ Goto("L58")
    /\ UNCHANGED <<tutVars, program, main_pc, theading, tpen, tshown, root_call>>

\* line 58: current_pos = t.position()
SavePosition ==
    /\ At("L58")
    /\ stack' = [stack EXCEPT ![Len(stack)].current_pos = tpos,
                              ![Len(stack)].pc = "L59"]
    /\ last_op' = "position"
    /\ UNCHANGED <<tutVars, program, main_pc, tpos, theading, tpen, tshown, root_call,
                   forward_calls>>

\* line 59: current_heading = t.heading()
SaveHeading ==
    /\ At("L59")
    /\ stack' = [stack EXCEPT ![Len(stack)].current_heading = theading,
                              ![Len(stack)].pc = "L63"]
    /\ last_op' = "heading"
    /\ UNCHANGED <<tutVars, program, main_pc, tpos, theading, tpen, tshown, root_call,
                   forward_calls>>

\* line 63: t.left(BRANCH_ANGLE)
TurnLeft ==
    /\ At("L63")
    /\ theading' = turtle_left(theading, BRANCH_ANGLE)
    /\ last_op' = "left"
    /\ Goto("L67")
    /\ UNCHANGED <<tutVars, program, main_pc, tpos, tpen, tshown, root_call, forward_calls>>

\* lines 67 and 81: draw_fractal_tree(t, length * BRANCH_SCALE, depth - 1)
CallChild(label) ==
    /\ At(label)
    /\ stack' = Append(stack, Frame(ScaleLength(Top.length), Top.depth - 1))
    /\ last_op' = "call"
    /\ UNCHANGED <<tutVars, program, main_pc, tpos, theading, tpen, tshown, root_call,
                   forward_calls>>

CallLeft == CallChild("L67")

\* mutant: the right sub-branch is never drawn
CallRight_Skipped ==
    /\ At("L81")
    /\ Goto("L86")
    /\ last_op' = "skip"
    /\ UNCHANGED <<tutVars, program, main_pc, tpos, theading, tpen, tshown, root_call,
                   forward_calls>>

CallRight == CallChild("L81")

\* lines 72 and 86: t.penup()
PenUp(label, next) ==
    /\ At(label)
    /\ tpen' = "up"
    /\ last_op' = "penup"
    /\ Goto(next)
    /\ UNCHANGED <<tutVars, program, main_pc, tpos, theading, tshown, root_call,
                   forward_calls>>

\* lines 73 and 87: t.goto(current_pos)
GotoSaved(label, next) ==
    /\ At(label)
    /\ tpos' = Top.current_pos
    /\ last_op' = "goto"
    /\ Goto(next)
    /\ UNCHANGED <<tutVars, program, main_pc, theading, tpen, tshown, root_call,
                   forward_calls>>

\* lines 74 and 88: t.setheading(current_heading)
SetHeadingSaved(label, next) ==
    /\ At(label)
    /\ theading' = Top.current_heading
    /\ last_op' = "setheading"
    /\ Goto(next)
    /\ UNCHANGED <<tutVars, program, main_pc, tpos, tpen, tshown, root_call, forward_calls>>

PenUpAfterLeft == PenUp("L72", "L73")

\* mutant: the cursor is not moved back before the right sub-branch
GotoAfterLeft_Stays ==
    /\ At("L73")
    /\ last_op' = "goto"
    /\ Goto("L74")
    /\ UNCHANGED <<tutVars, program, main_pc, tpos, theading, tpen, tshown, root_call,
                   forward_calls>>

GotoAfterLeft == GotoSaved("L73", "L74")

SetHeadingAfterLeft == SetHeadingSaved("L74", "L75")

\* mutant: the pen is not put down again before the right sub-branch
PenDownAfterLeft_Missing ==
    /\ At("L75")
    /\ last_op' = "none"
    /\ Goto("L79")
    /\ UNCHANGED <<tutVars, program, main_pc, tpos, theading, tpen, tshown, root_call,
                   forward_calls>>

\* line 75: t.pendown()
PenDownAfterLeft ==
    /\ At("L75")
    /\ tpen' = "down"
    /\ last_op' = "pendown"
    /\ Goto("L79")
    /\ UNCHANGED <<tutVars, program, main_pc, tpos, theading, tshown, root_call,
                   forward_calls>>

\* line 79: t.right(BRANCH_ANGLE)
TurnRight ==
    /\ At("L79")
    /\ theading' = turtle_right(theading, BRANCH_ANGLE)
    /\ last_op' = "right"
    /\ Goto("L81")
    /\ UNCHANGED <<tutVars, program, main_pc, tpos, tpen, tshown, root_call, forward_calls>>

PenUpAfterRight == PenUp("L86", "L87")

GotoAfterRight == GotoSaved("L87", "L88")

SetHeadingAfterRight == SetHeadingSaved("L88", "L89")

\* line 89: t.pendown(), then the function returns
PenDownAndReturn ==
    /\ At("L89")
    /\ tpen' = "down"
    /\ last_op' = "pendown"
    /\ ReturnToCaller
    /\ UNCHANGED <<tutVars, program, tpos, theading, tshown, root_call, forward_calls>>

(* ------------------------ create_fractal_art --------------------------- *)
AtMain(label) == program = "demo" /\ main_pc = label

\* line 107: artist.penup()
ArtistPenUp ==
    /\ AtMain("L107")
    /\ tpen' = "up"
    /\ last_op' = "penup"
    /\ main_pc' = "L108"
    /\ UNCHANGED <<tutVars, program, tpos, theading, tshown, stack, root_call, forward_calls>>

\* line 108: artist.goto(0, -250)
ArtistGoto ==
    /\ AtMain("L108")
    /\ tpos' = Point(0, -250)
    /\ last_op' = "goto"
    /\ main_pc' = "L109"
    /\ UNCHANGED <<tutVars, program, theading, tpen, tshown, stack, root_call, forward_calls>>

\* line 109: artist.left(90)
ArtistLeft ==
    /\ AtMain("L109")
    /\ theading' = turtle_left(theading, 90)
    /\ last_op' = "left"
    /\ main_pc' = "L110"
    /\ UNCHANGED <<tutVars, program, tpos, tpen, tshown, stack, root_call, forward_calls>>

\* line 110: artist.pendown()
ArtistPenDown ==
    /\ AtMain("L110")
    /\ tpen' = "down"
    /\ last_op' = "pendown"
    /\ main_pc' = "L113"
    /\ UNCHANGED <<tutVars, program, tpos, theading, tshown, stack, root_call, forward_calls>>

\* line 113: draw_fractal_tree(artist, length, depth); the script passes
\* INITIAL_LENGTH and RECURSION_DEPTH, the model any length and depth
StartDrawing ==
    /\ AtMain("L113")
    /\ \E length \in Lengths, depth \in Depths :
          /\ stack' = <<Frame(length, depth)>>
          /\ root_call' = [length |-> length, depth |-> depth, pos |-> tpos,
                           heading |-> theading, pen |-> tpen]
    /\ forward_calls' = 0
    /\ last_op' = "call"
    /\ main_pc' = "in_call"
    /\ UNCHANGED <<tutVars, program, tpos, theading, tpen, tshown>>

\* line 116: artist.hideturtle()
HideTurtle ==
    /\ AtMain("L116")
    /\ tshown' = FALSE
    /\ last_op' = "hideturtle"
    /\ main_pc' = "done"
    /\ UNCHANGED <<tutVars, program, tpos, theading, tpen, stack, root_call, forward_calls>>

(* =================== python_tutorial_262ddc.py ========================= *)
(* Floats.  A finite float is a fixed point number with ONE steps per unit *)
(* (a power of two, so the values of the model are floats exactly); the    *)
(* other floats are nan, inf and -inf.                                     *)
ONE == 2^10

GRID_SIZE == 16
CELL_SIZE == 30
IMAGE_WIDTH == GRID_SIZE * CELL_SIZE
IMAGE_HEIGHT == GRID_SIZE * CELL_SIZE
BACKGROUND_COLOR == <<255, 255, 255>>
PATTERN_COLOR_RANGE == <<(<<0, 0, 0>>), (<<100, 100, 255>>)>>

\* names bound in the module when its functions run: the imports of lines
\* 13-14, the constants of lines 17-22, the functions of lines 26, 58, 82
ModuleGlobals ==
    {"Image", "ImageDraw", "random",
     "GRID_SIZE", "CELL_SIZE", "IMAGE_WIDTH", "IMAGE_HEIGHT", "BACKGROUND_COLOR",
     "PATTERN_COLOR_RANGE",
     "get_pattern_value", "map_value_to_color", "draw_grid_pattern"}

\* the builtins the module uses
Builtins == {"abs", "int", "max", "min", "range", "str", "print"}

\* a name that is neither global nor builtin raises NameError when evaluated
Bound(name) == name \in ModuleGlobals \cup Builtins

Return(v) == [err |-> "none", value |-> v]

Raise(e) == [err |-> e, value |-> <<>>]

Fin(q) == [kind |-> "fin", q |-> q]

NaN == [kind |-> "nan", q |-> 0]

Inf == [kind |-> "inf", q |-> 0]

NegInf == [kind |-> "-inf", q |-> 0]

Abs(n) == IF n < 0 THEN -n ELSE n

(* math.sin and math.cos on fixed point radians: Bhaskara's approximation  *)
(*   sin x = 16 x (pi - x) / (5 pi^2 - 4 x (pi - x))   for 0 <= x <= pi    *)
PI == (355 * ONE) \div 113

HalfWave(x) == (16 * x * (PI - x)) \div ((5 * PI * PI - 4 * x * (PI - x)) \div ONE)

math_sin(x) ==
    LET t == x % (2 * PI)
    IN  IF t <= PI THEN HalfWave(t) ELSE -HalfWave(t - PI)

math_cos(x) == math_sin(x + PI \div 2)

\* lines 26-56
get_pattern_value(row, col, time_factor) ==
    LET base_value == ((row + col) * ONE) \div 10
        pattern_noise == (Abs(row - col) * 2 * ONE) \div 10
                         + (row * 3 * ONE) \div 10
                         + (col * 4 * ONE) \div 10
                         + (time_factor * 5) \div 10
        sine_wave_1 == math_sin(base_value + pattern_noise)
        sine_wave_2 == math_cos((pattern_noise * 15) \div 10)
        combined_value == (sine_wave_1 * 5) \div 10 + (sine_wave_2 * 5) \div 10
        scaled_value == (combined_value + ONE) \div 2
    IN  IF ~Bound("math") THEN Raise("NameError") ELSE Return(scaled_value)

\* start + (end - start) * value, as a float
Interpolate(start, end, value) ==
    IF value.kind = "fin" THEN Fin(start * ONE + (end - start) * value.q)
    ELSE IF value.kind = "nan" \/ end = start THEN NaN
    ELSE IF (value.kind = "inf") = (end > start) THEN Inf
    ELSE NegInf

\* int(x): truncates toward zero; raises on nan and on the infinities
PyInt(x) ==
    IF x.kind = "nan" THEN Raise("ValueError")
    ELSE IF x.kind # "fin" THEN Raise("OverflowError")
    ELSE Return(IF x.q >= 0 THEN x.q \div ONE ELSE -((-x.q) \div ONE))

Max(a, b) == IF a >= b THEN a ELSE b

Min(a, b) == IF a <= b THEN a ELSE b

\* mutant: only the lower end of the range is enforced
Clamp_NoUpper(c) == Max(0, c)

\* lines 76-78: max(0, min(255, c))
Clamp(c) == Max(0, Min(255, c))

\* mutant: the blue channel is interpolated towards the green end value
map_value_to_color_BlueFromGreen(value) ==
    LET start_color == PATTERN_COLOR_RANGE[1]
        end_color == PATTERN_COLOR_RANGE[2]
        r == PyInt(Interpolate(start_color[1], end_color[1], value))
        g == PyInt(Interpolate(start_color[2], end_color[2], value))
        b == PyInt(Interpolate(start_color[3], end_color[2], value))
    IN  IF r.err # "none" THEN Raise(r.err)
        ELSE IF g.err # "none" THEN Raise(g.err)
        ELSE IF b.err # "none" THEN Raise(b.err)
        ELSE Return(<<Clamp(r.value), Clamp(g.value), Clamp(b.value)>>)

\* lines 58-80
map_value_to_color(value) ==
    LET start_color == PATTERN_COLOR_RANGE[1]
        end_color == PATTERN_COLOR_RANGE[2]
        r == PyInt(Interpolate(start_color[1], end_color[1], value))
        g == PyInt(Interpolate(start_color[2], end_color[2], value))
        b == PyInt(Interpolate(start_color[3], end_color[3], value))
    IN  IF r.err # "none" THEN Raise(r.err)
        ELSE IF g.err # "none" THEN Raise(g.err)
        ELSE IF b.err # "none" THEN Raise(b.err)
        ELSE Return(<<Clamp(r.value), Clamp(g.value), Clamp(b.value)>>)

(* An image is kept as its size, the colour it was created with and the    *)
(* rectangles painted on it since, in order; getpixel reads the raster.    *)
NoImage == [width |-> 0, height |-> 0, color |-> <<>>, painted |-> <<>>]

\* Image.new('RGB', (width, height), color)
NewImage(width, height, color) ==
    [width |-> width, height |-> height, color |-> color, painted |-> <<>>]

\* ImageDraw.rectangle([x1, y1, x2, y2], fill): both corners belong to the
\* rectangle; the part outside the image is dropped
rectangle(img, x1, y1, x2, y2, fill) ==
    [img EXCEPT !.painted =
        Append(@, [x1 |-> Max(x1, 0), y1 |-> Max(y1, 0),
                   x2 |-> Min(x2, img.width - 1), y2 |-> Min(y2, img.height - 1),
                   fill |-> fill])]

\* the colour of pixel (x, y) after the first n rectangles
RECURSIVE PixelAfter(_, _, _, _)
PixelAfter(img, x, y, n) ==
    IF n = 0 THEN img.color
    ELSE LET rect == img.painted[n]
         IN  IF x \in rect.x1..rect.x2 /\ y \in rect.y1..rect.y2 THEN rect.fill
             ELSE PixelAfter(img, x, y, n - 1)

\* Image.getpixel((x, y))
getpixel(img, x, y) == PixelAfter(img, x, y, Len(img.painted))

Pixels(img) == (0..(img.width - 1)) \X (0..(img.height - 1))

\* lines 91-109, from cell k on in row-major order; the image is painted in
\* place, so an exception leaves the cells painted before it
RECURSIVE DrawCells(_, _, _)
DrawCells(img, time_factor, k) ==
    IF k = GRID_SIZE * GRID_SIZE THEN [err |-> "none", image |-> img]
    ELSE
        LET row == k \div GRID_SIZE
            col == k % GRID_SIZE
            pattern_val == get_pattern_value(row, col, time_factor)
            cell_color == map_value_to_color(Fin(pattern_val.value))
            x1 == col * CELL_SIZE
            y1 == row * CELL_SIZE
            x2 == x1 + CELL_SIZE
            y2 == y1 + CELL_SIZE
        IN  IF pattern_val.err # "none" THEN [err |-> pattern_val.err, image |-> img]
            ELSE IF cell_color.err # "none" THEN [err |-> cell_color.err, image |-> img]
            ELSE DrawCells(rectangle(img, x1, y1, x2, y2, cell_color.value),
                           time_factor, k + 1)

\* lines 82-109
draw_grid_pattern(img, time_factor) == DrawCells(img, time_factor, 0)

\* str(n) for n >= 0, one character per element
DigitChars == <<"0", "1", "2", "3", "4", "5", "6", "7", "8", "9">>

RECURSIVE Str(_)
Str(n) == IF n < 10 THEN <<DigitChars[n + 1]>>
          ELSE Str(n \div 10) \o <<DigitChars[(n % 10) + 1]>>

\* s.zfill(width)
RECURSIVE zfill(_, _)
zfill(s, width) == IF Len(s) >= width THEN s ELSE zfill(<<"0">> \o s, width)

\* line 137
OutputFilename(n) == <<"pattern_grid_">> \o zfill(Str(n + 1), 3) \o <<".png">>

\* frame_num / num_frames, as a float
TimeFactor(n, total) == (n * ONE) \div total

(* ----------------- the functions, called by an importer ---------------- *)
MaxCell == 3
ValueSteps == 4

Cells == (-1)..MaxCell
TimeFactors == {(k * ONE) \div ValueSteps : k \in 0..ValueSteps}
Values == {Fin((k * ONE) \div ValueSteps) : k \in (-ValueSteps)..(2 * ValueSteps)}
              \cup {NaN, Inf, NegInf}

NotCalled == [called |-> FALSE, args |-> <<>>, result |-> Raise("none")]

Called(args, result) == [called |-> TRUE, args |-> args, result |-> result]

CallGetPatternValue ==
    /\ program = "tutorial_import"
    /\ \E row \in Cells, col \in Cells, time_factor \in TimeFactors :
          gpv_call' = Called(<<row, col, time_factor>>,
                             get_pattern_value(row, col, time_factor))
    /\ UNCHANGED <<program, treeVars, mvc_prev, mvc_call, tut_pc, num_frames,
                   frame_num, image, saved, error>>

CallMapValueToColor ==
    /\ program = "tutorial_import"
    /\ \E value \in Values :
          mvc_call' = Called(<<value>>, map_value_to_color(value))
    /\ mvc_prev' = mvc_call
    /\ UNCHANGED <<program, treeVars, gpv_call, tut_pc, num_frames, frame_num,
                   image, saved, error>>

(* ------------------------- run as __main__ ----------------------------- *)
\* lines 117-120
TutorialStart ==
    /\ program = "tutorial"
    /\ tut_pc = "L117"
    /\ num_frames' = 60
    /\ frame_num' = 0
    /\ tut_pc' = "loop"
    /\ UNCHANGED <<program, treeVars, gpv_call, mvc_prev, mvc_call, image, saved,
                   error>>

\* lines 122-141, one pass of the loop, and lines 143-145 when the range is
\* exhausted; an exception of draw_grid_pattern ends the script
FrameIteration ==
    /\ program = "tutorial"
    /\ tut_pc = "loop"
    /\ IF frame_num = num_frames
       THEN /\ tut_pc' = "done"
            /\ UNCHANGED <<frame_num, image, saved, error>>
       ELSE LET fresh == NewImage(IMAGE_WIDTH, IMAGE_HEIGHT, BACKGROUND_COLOR)
                current_time_factor == TimeFactor(frame_num, num_frames)
                drawn == draw_grid_pattern(fresh, current_time_factor)
            IN  /\ image' = drawn.image
                /\ IF drawn.err # "none"
                   THEN /\ error' = drawn.err
                        /\ tut_pc' = "raised"
                        /\ UNCHANGED <<frame_num, saved>>
                   ELSE /\ saved' = Append(saved, OutputFilename(frame_num))
                        /\ frame_num' = frame_num + 1
                        /\ UNCHANGED <<tut_pc, error>>
    /\ UNCHANGED <<program, treeVars, gpv_call, mvc_prev, mvc_call, num_frames>>

InitTutorial ==
    /\ gpv_call = NotCalled
    /\ mvc_prev = NotCalled
    /\ mvc_call = NotCalled
    /\ tut_pc = "L117"
    /\ num_frames = 0
    /\ frame_num = 0
    /\ image = NoImage
    /\ saved = <<>>
    /\ error = "none"

NoCall == [length |-> 0, depth |-> 0, pos |-> Origin, heading |-> 0, pen |-> "down"]

InitTree ==
    /\ main_pc = "L107"
    /\ tpos = Origin
    /\ theading = 0
    /\ tpen = "down"
    /\ tshown = TRUE
    /\ stack = <<>>
    /\ root_call = NoCall
    /\ forward_calls = 0
    /\ last_op = "none"

\* python_demo_823d3b.py run as a script
Init ==
    /\ program = "demo"
    /\ InitTree
    /\ InitTutorial

Next ==
    \/ ArtistPenUp
    \/ ArtistGoto
    \/ ArtistLeft
    \/ ArtistPenDown
    \/ StartDrawing
    \/ BaseCase
    \/ EnterBody
    \/ DrawBranch
    \/ SavePosition
    \/ SaveHeading
    \/ TurnLeft
    \/ CallLeft
    \/ PenUpAfterLeft
    \/ GotoAfterLeft
    \/ SetHeadingAfterLeft
    \/ PenDownAfterLeft
    \/ TurnRight
    \/ CallRight
    \/ PenUpAfterRight
    \/ GotoAfterRight
    \/ SetHeadingAfterRight
    \/ PenDownAndReturn
    \/ HideTurtle

Spec == Init /\ [][Next]_vars

\* the script is one thread that runs each statement to completion
FairSpec == Spec /\ WF_vars(Next)

\* python_tutorial_262ddc.py, run as a script or imported for its functions
TutorialInit ==
    /\ program \in {"tutorial", "tutorial_import"}
    /\ InitTree
    /\ InitTutorial

TutorialNext ==
    \/ CallGetPatternValue
    \/ CallMapValueToColor
    \/ TutorialStart
    \/ FrameIteration

TutorialSpec == TutorialInit /\ [][TutorialNext]_vars

(* ============================ properties =============================== *)
TreeReturned == program = "demo" /\ main_pc \in {"L116", "done"}

RECURSIVE Pow2(_)
Pow2(n) == IF n = 0 THEN 1 ELSE 2 * Pow2(n - 1)

\* C1: every root call draw_fractal_tree(t, L, D) with D >= 0 returns, and
\* when it has returned exactly 2^D - 1 calls of t.forward were issued
C1_ForwardCalls ==
    /\ [](TreeReturned => forward_calls = Pow2(root_call.depth) - 1)
    /\ [](forward_calls <= Pow2(root_call.depth) - 1)
    /\ (program = "demo" /\ main_pc = "in_call") ~> TreeReturned

C1_Witness ==
    /\ TreeReturned
    /\ root_call.depth = 2
    /\ forward_calls = 3

\* C2: when the root call has returned, the cursor position and heading are
\* those of the moment the root call was made
C2_PoseRestored ==
    TreeReturned => /\ tpos = root_call.pos
                    /\ theading = root_call.heading

\* C3: a child call starts at the position its parent saved after drawing
\* its branch, heading BRANCH_ANGLE to the left (left child) or to the right
\* (right child) of the saved heading, with the parent's length times
\* BRANCH_SCALE and the parent's depth minus one
C3_SiblingsShareBase ==
    (InTree /\ Len(stack) >= 2 /\ Top.pc = "L50") =>
        LET parent == stack[Len(stack) - 1]
        IN  /\ parent.pc \in {"L67", "L81"}
            /\ tpos = parent.current_pos
            /\ parent.pc = "L67" =>
                   theading = (parent.current_heading + BRANCH_ANGLE) % 360
            /\ parent.pc = "L81" =>
                   theading = (parent.current_heading - BRANCH_ANGLE) % 360
            /\ Top.length * BRANCH_SCALE_DEN = parent.length * BRANCH_SCALE_NUM
            /\ Top.depth = parent.depth - 1

\* the right child starts after a left sibling that moved the cursor
C3_Witness ==
    /\ InTree /\ Len(stack) >= 2 /\ Top.pc = "L50"
    /\ stack[Len(stack) - 1].pc = "L81"
    /\ stack[Len(stack) - 1].depth >= 2
    /\ stack[Len(stack) - 1].length > 0
    /\ last_op = "call"

\* C10: with the pen down at the root call, every t.forward of the
\* recursion happens with the pen down, every t.goto with the pen up, and
\* the pen is down when the root call has returned
C10_PenDiscipline ==
    (program = "demo" /\ root_call.pen = "down") =>
        /\ (main_pc = "in_call" /\ last_op = "forward") => tpen = "down"
        /\ (main_pc = "in_call" /\ last_op = "goto") => tpen = "up"
        /\ main_pc = "L116" => tpen = "down"

\* a repositioning move between two siblings, after branches were drawn
C10_Witness ==
    /\ program = "demo" /\ main_pc = "in_call"
    /\ root_call.pen = "down"
    /\ forward_calls >= 2
    /\ last_op = "goto"
    /\ tpen = "up"

\* C4: every call of get_pattern_value returns a value, none raises
C4_NoErrorCases ==
    gpv_call.called => gpv_call.result.err = "none"

\* C5: every call of get_pattern_value returns a value in [0, 1]
C5_ValueInUnitRange ==
    gpv_call.called => /\ gpv_call.result.err = "none"
                       /\ gpv_call.result.value \in 0..ONE

InUnitRange(v) == v.kind = "fin" /\ v.q \in 0..ONE

\* C6: map_value_to_color(0.0) is the start colour, map_value_to_color(1.0)
\* the end colour, and of two calls with values v1 <= v2 in [0, 1] no
\* channel of the first result exceeds the same channel of the second
C6_EndpointsAndMonotone ==
    /\ (mvc_call.called /\ mvc_call.args = <<Fin(0)>>) =>
           mvc_call.result = Return(<<0, 0, 0>>)
    /\ (mvc_call.called /\ mvc_call.args = <<Fin(ONE)>>) =>
           mvc_call.result = Return(<<100, 100, 255>>)
    /\ (/\ mvc_prev.called /\ mvc_call.called
        /\ InUnitRange(mvc_prev.args[1]) /\ InUnitRange(mvc_call.args[1])
        /\ mvc_prev.args[1].q <= mvc_call.args[1].q) =>
           /\ mvc_prev.result.err = "none"
           /\ mvc_call.result.err = "none"
           /\ \A i \in 1..3 : mvc_prev.result.value[i] <= mvc_call.result.value[i]

C6_Witness ==
    /\ mvc_prev.called /\ mvc_call.called
    /\ InUnitRange(mvc_prev.args[1]) /\ InUnitRange(mvc_call.args[1])
    /\ 0 < mvc_prev.args[1].q
    /\ mvc_prev.args[1].q < mvc_call.args[1].q
    /\ mvc_call.args[1].q < ONE
    /\ \A i \in 1..3 : mvc_prev.result.value[i] < mvc_call.result.value[i]

\* C7 as stated: every call of map_value_to_color, whatever its input,
\* returns three integers in 0..255
C7_AnyInputClamped ==
    mvc_call.called =>
        /\ mvc_call.result.err = "none"
        /\ \A i \in 1..3 : mvc_call.result.value[i] \in 0..255

\* C7 amended: every call of map_value_to_color with a finite input, below
\* 0 and above 1 included, returns three integers in 0..255
C7_FiniteInputClamped ==
    (mvc_call.called /\ mvc_call.args[1].kind = "fin") =>
        /\ mvc_call.result.err = "none"
        /\ \A i \in 1..3 : mvc_call.result.value[i] \in 0..255

\* an input above 1 whose blue channel had to be cut back to 255
C7_Witness ==
    /\ mvc_call.called
    /\ mvc_call.args[1].kind = "fin"
    /\ mvc_call.args[1].q > ONE
    /\ mvc_call.result = Return(<<200, 200, 255>>)

TutorialEnded == program = "tutorial" /\ tut_pc \in {"raised", "done"}

\* "pattern_grid_" + the three decimal digits of i + ".png"
PaddedName(i) ==
    <<"pattern_grid_", DigitChars[(i \div 100) + 1], DigitChars[((i \div 10) % 10) + 1],
      DigitChars[(i % 10) + 1], ".png">>

\* C8: the script saves exactly 60 files, the i-th under the name with
\* index i padded to three digits ("001" to "060"), all names distinct
C8_SixtyFrames ==
    TutorialEnded =>
        /\ Len(saved) = 60
        /\ \A i \in 1..Len(saved) : saved[i] = PaddedName(i)
        /\ \A i, j \in 1..Len(saved) : saved[i] = saved[j] => i = j

\* the frame whose draw_grid_pattern call ended last
LastDrawn == IF tut_pc = "raised" THEN frame_num ELSE frame_num - 1

\* C9: when draw_grid_pattern has ended, it has returned and every pixel
\* (x, y) of the image has the colour of the cell (y div CELL_SIZE,
\* x div CELL_SIZE), so that no pixel keeps the background
C9_EveryPixelItsCell ==
    (program = "tutorial" /\ image # NoImage) =>
        /\ tut_pc # "raised"
        /\ \A p \in Pixels(image) :
              LET v == get_pattern_value(p[2] \div CELL_SIZE, p[1] \div CELL_SIZE,
                                         TimeFactor(LastDrawn, num_frames))
              IN  /\ v.err = "none"
                  /\ getpixel(image, p[1], p[2]) = map_value_to_color(Fin(v.value)).value

====
